---- MODULE Spec2Model ----
(***************************************************************************)
(* Model of src/src/index.ts: the tool dispatcher of the self-hosted       *)
(* Sentry MCP server (argument type guards, getIssueId, the ListTools      *)
(* catalogue, the CallTool handler with its catch block).                  *)
(*                                                                         *)
(* Strings are sequences of tokens, so that concatenation and template     *)
(* literals are sequence concatenation.  A JavaScript value is a record    *)
(* [t |-> typeof-like tag, v |-> tokens]; v is <<>> unless t = "string".   *)
(***************************************************************************)
EXTENDS Integers, Sequences, FiniteSets, TLC

\* ---------------------------------------------------------------- bounds
\* Longest identifier input (in tokens, the URL origin not counted).
MaxLen == 6
\* Number of tool invocations in flight at once.
NumCalls == 2

Calls == 1..NumCalls

\* ------------------------------------------------------ JavaScript values
Str(s) == [t |-> "string", v |-> s]
Undef == [t |-> "undefined", v |-> <<>>]
Num == [t |-> "number", v |-> <<>>]
JsNull == [t |-> "null", v |-> <<>>]

\* typeof x (typeof null is "object").
TypeOf(x) == IF x.t = "null" THEN "object" ELSE x.t

\* The truthiness test of `if (x)` / `!x` on a string, null or undefined.
Truthy(x) == x.t = "object" \/ x.t = "number" \/ (x.t = "string" /\ x.v # <<>>)

FieldNames ==
    {"issue_id_or_url", "project_slug", "query", "status", "event_id",
     "issue_id", "comment_text"}

\* An object with no own properties: every property reads as undefined.
NoFields == [k \in FieldNames |-> Undef]

\* request.params.arguments: an object with its properties, or a non-object.
Obj(fields) == [t |-> "object", v |-> <<>>, f |-> fields]
NonObj(x) == [t |-> x.t, v |-> x.v, f |-> NoFields]

\* ------------------------------------------------------------ configuration
\* process.env.SENTRY_ORG_SLUG, fixed at start-up.
ORG_SLUG == <<"org">>

\* ------------------------------------------------------ argument type guards
isValidGetIssueArgs(args) ==
    TypeOf(args) = "object" /\ args.t # "null"
    /\ TypeOf(args.f.issue_id_or_url) = "string"

isValidListIssuesArgs(args) ==
    TypeOf(args) = "object" /\ args.t # "null"
    /\ TypeOf(args.f.project_slug) = "string"
    /\ (args.f.query.t = "undefined" \/ TypeOf(args.f.query) = "string")
    /\ (args.f.status.t = "undefined" \/ TypeOf(args.f.status) = "string")

isValidGetEventArgs(args) ==
    TypeOf(args) = "object" /\ args.t # "null"
    /\ TypeOf(args.f.project_slug) = "string"
    /\ TypeOf(args.f.event_id) = "string"

isValidUpdateIssueArgs(args) ==
    TypeOf(args) = "object" /\ args.t # "null"
    /\ TypeOf(args.f.issue_id) = "string"
    /\ TypeOf(args.f.status) = "string"
    /\ args.f.status.v \in {<<"resolved">>, <<"ignored">>, <<"unresolved">>}

isValidCreateCommentArgs(args) ==
    TypeOf(args) = "object" /\ args.t # "null"
    /\ TypeOf(args.f.issue_id) = "string"
    /\ TypeOf(args.f.comment_text) = "string"

\* ------------------------------------------------------------- getIssueId
\* Tokens of an identifier input: "S" is a scheme and authority
\* ("https://sentry.example.com"), "/" the path separator, "I" the word
\* "issues", "1" a decimal digit, "x" a letter.
PathTokens == {"/", "I", "1", "x"}

\* /^\d+$/.test(s)
IsDigits(s) == Len(s) > 0 /\ \A i \in 1..Len(s) : s[i] = "1"

\* new URL(input) succeeds exactly when the input carries a scheme; without
\* one (a bare id, a relative path, the empty string) it throws TypeError.
UrlParses(input) == Len(input) > 0 /\ input[1] = "S"

\* url.pathname: what follows the authority, from the first "/" on (tokens
\* before it extend the host name); "/" when there is none.
Pathname(input) ==
    LET rest == SubSeq(input, 2, Len(input))
        slashes == {i \in 1..Len(rest) : rest[i] = "/"}
    IN  IF slashes = {} THEN <<"/">>
        ELSE LET first == CHOOSE i \in slashes : \A j \in slashes : i <= j
             IN  SubSeq(rest, first, Len(rest))

\* String.prototype.split('/'): the pieces between separators, empty pieces
\* included.
RECURSIVE Split(_)
Split(s) ==
    LET slashes == {i \in 1..Len(s) : s[i] = "/"}
    IN  IF slashes = {} THEN <<s>>
        ELSE LET first == CHOOSE i \in slashes : \A j \in slashes : i <= j
             IN  <<SubSeq(s, 1, first - 1)>> \o Split(SubSeq(s, first + 1, Len(s)))

\* Array.prototype.indexOf, 1-based; 0 stands for -1.
IndexOf(parts, seg) ==
    LET hits == {i \in 1..Len(parts) : parts[i] = seg}
    IN  IF hits = {} THEN 0 ELSE CHOOSE i \in hits : \A j \in hits : i <= j


getIssueId(input) ==
    IF UrlParses(input)
    THEN LET pathParts == Split(Pathname(input))
             issuesIndex == IndexOf(pathParts, <<"I">>)
         IN  IF issuesIndex # 0 /\ Len(pathParts) > issuesIndex
                THEN LET potentialId == pathParts[issuesIndex + 1]
                     IN  IF IsDigits(potentialId) THEN Str(potentialId) ELSE JsNull
                ELSE JsNull
    ELSE IF IsDigits(input) THEN Str(input) ELSE JsNull

\* ------------------------------------------------------------- ListTools
\* The catalogue the discovery operation returns: each tool's name, the
\* `required` list of its inputSchema and the enum of its status property
\* ({} where the schema declares none).
StatusEnum == {<<"resolved">>, <<"unresolved">>, <<"ignored">>}

\* Mutant of ListTools: the catalogue also advertises a status-update tool.
ListToolsWithUpdate ==
    << [name |-> "get_sentry_issue", required |-> {"issue_id_or_url"},
        statusEnum |-> {}],
       [name |-> "list_sentry_projects", required |-> {}, statusEnum |-> {}],
       [name |-> "list_sentry_issues", required |-> {"project_slug"},
        statusEnum |-> StatusEnum],
       [name |-> "get_sentry_event_details",
        required |-> {"project_slug", "event_id"}, statusEnum |-> {}],
       [name |-> "update_sentry_issue_status", required |-> {"issue_id", "status"},
        statusEnum |-> StatusEnum] >>

ListTools ==
    << [name |-> "get_sentry_issue", required |-> {"issue_id_or_url"},
        statusEnum |-> {}],
       [name |-> "list_sentry_projects", required |-> {}, statusEnum |-> {}],
       [name |-> "list_sentry_issues", required |-> {"project_slug"},
        statusEnum |-> StatusEnum],
       [name |-> "get_sentry_event_details",
        required |-> {"project_slug", "event_id"}, statusEnum |-> {}] >>

AdvertisedNames == {ListTools[i].name : i \in 1..Len(ListTools)}

\* The fields each type guard demands to be strings (its narrowed type).
GuardedFields(name) ==
    CASE name = "get_sentry_issue" -> {"issue_id_or_url"}
      [] name = "list_sentry_issues" -> {"project_slug"}
      [] name = "get_sentry_event_details" -> {"project_slug", "event_id"}
      [] name = "update_sentry_issue_status" -> {"issue_id", "status"}
      [] name = "create_sentry_issue_comment" -> {"issue_id", "comment_text"}
      [] OTHER -> {}

\* ------------------------------------------------------- upstream exchange
\* JSON null, and JSON objects as records; the value of latest_event is
\* itself JSON (an object or null), every other value a string.
JsonNull == [jsonNull |-> "null"]

KeyOrder == <<"id", "title", "eventID", "detail", "latest_event">>

\* JSON.stringify: the members in key order, separated by commas
\* (indentation is white space and is left out).
RECURSIVE Stringify(_)
RECURSIVE Members(_, _)
Members(obj, i) ==
    IF i > Len(KeyOrder) THEN <<>>
    ELSE LET k == KeyOrder[i]
         IN  (IF k \in DOMAIN obj
                 THEN <<",", k, ":">> \o
                      (IF k = "latest_event" THEN Stringify(obj[k]) ELSE <<obj[k]>>)
                 ELSE <<>>)
             \o Members(obj, i + 1)

Stringify(x) ==
    IF x = JsonNull THEN <<"null">>
    ELSE LET ms == Members(x, 1)
         IN  <<"{">> \o (IF ms = <<>> THEN <<>> ELSE Tail(ms)) \o <<"}">>

\* What the upstream can answer to an issue / list / event request.
IssuePayloads ==
    { [id |-> "7", title |-> "boom"],
      [id |-> "8", title |-> "crash", latest_event |-> [eventID |-> "stale"]] }

EventPayloads == { [eventID |-> "e1"], [eventID |-> "e2"] }

ErrorBody == [detail |-> "upstream says no"]

ErrStatuses == {400, 401, 403, 404, 500}

\* One answer of the upstream to one request: a 2xx response with its body, a
\* non-2xx response, or no response at all (the 20 s timeout, a transport
\* failure).
OkResponse(data) == [kind |-> "ok", status |-> 200, data |-> data]
HttpFailure(status) == [kind |-> "http", status |-> status, data |-> ErrorBody]
Timeout == [kind |-> "timeout", status |-> 0, data |-> JsonNull]
NetworkError == [kind |-> "network", status |-> 0, data |-> JsonNull]

Failures == {HttpFailure(s) : s \in ErrStatuses} \cup {Timeout, NetworkError}
PrimaryAnswers == {OkResponse(d) : d \in IssuePayloads} \cup Failures
EventAnswers == {OkResponse(d) : d \in EventPayloads} \cup Failures

\* The AxiosError axios rejects with for a failed exchange.
AxiosError(r) ==
    [cls |-> "AxiosError",
     message |-> CASE r.kind = "http" ->
                        <<"Request failed with status code ", ToString(r.status)>>
                   [] r.kind = "timeout" -> <<"timeout of ", "20000", "ms exceeded">>
                   [] OTHER -> <<"Network Error">>,
     hasResponse |-> r.kind = "http",
     status |-> r.status,
     data |-> r.data]

McpError(code, message) == [cls |-> "McpError", code |-> code, message |-> message]

\* axiosInstance.get(url, {params}): params.query is undefined when the
\* request carries no query parameter.
Get(url, query) == [method |-> "GET", url |-> url, query |-> query]

\* ------------------------------------------------------------------- state
VARIABLES
    pc,            \* per invocation: "idle", "awaitPrimary", "awaitEvent", "done"
    toolName,      \* request.params.name
    args,          \* request.params.arguments
    issueId,       \* the handler's local issueId (get_sentry_issue)
    combinedData,  \* the handler's local combinedData (get_sentry_issue)
    requests,      \* the upstream requests the invocation has issued, in order
    responses,     \* the upstream's answers to them, in order
    outcome,       \* what the caller receives: a ToolResult or a thrown McpError
    overlapped,    \* whether another invocation was suspended at an await at
                   \* some resumption of this one
    idInput,       \* the argument of a stand-alone getIssueId call
    idResult       \* its result

callVars ==
    <<pc, toolName, args, issueId, combinedData, requests, responses, outcome,
      overlapped>>
idVars == <<idInput, idResult>>
vars == <<pc, toolName, args, issueId, combinedData, requests, responses, outcome,
          overlapped, idInput, idResult>>

NoOutcome == [kind |-> "none"]
NotCalled == [t |-> "notcalled", v |-> <<>>]

\* --------------------------------------------------------- handler results
\* return { content: [{ type: "text", text }] }: isError is left out on
\* success, which the protocol reads as false.
Success(text) ==
    [kind |-> "ToolResult", isError |-> FALSE,
     content |-> << [type |-> "text", text |-> text] >>]

ErrorResult(errorMessage) ==
    [kind |-> "ToolResult", isError |-> TRUE,
     content |-> << [type |-> "text", text |-> errorMessage] >>]

\* The handler rejects: the caller receives the McpError as a protocol error.
Thrown(error) ==
    [kind |-> "ProtocolError", code |-> error.code, message |-> error.message]

\* Mutant of AxiosMessage: only 401 is taken for a permission failure, 403
\* keeps the composed message.
AxiosMessage401Only(name, error) ==
    LET base == <<"Sentry API error for ", name, ": ">> \o error.message
        full == base \o <<" Status: ", ToString(error.status), ". Response: ">>
                     \o Stringify(error.data)
    IN  IF ~error.hasResponse THEN base
        ELSE IF error.status = 401
             THEN <<"Sentry API permission denied for ", name,
                    ". Check auth token validity and permissions.">>
        ELSE IF error.status = 404
             THEN <<"Sentry resource not found for ", name, ". Check IDs/slugs.">>
        ELSE full

\* The message the catch block composes for an AxiosError.
AxiosMessage(name, error) ==
    LET base == <<"Sentry API error for ", name, ": ">> \o error.message
        full == base \o <<" Status: ", ToString(error.status), ". Response: ">>
                     \o Stringify(error.data)
    IN  IF ~error.hasResponse THEN base
        ELSE IF error.status >= 400 /\ error.status < 500
             THEN IF error.status = 401 \/ error.status = 403
                     THEN <<"Sentry API permission denied for ", name,
                            ". Check auth token validity and permissions.">>
                  ELSE IF error.status = 404
                     THEN <<"Sentry resource not found for ", name,
                            ". Check IDs/slugs.">>
                  ELSE full
             ELSE full

\* Mutant of Catch: a 4xx answer is raised as an InvalidRequest protocol
\* error instead of being returned.
CatchClientErrorThrown(name, error) ==
    IF error.cls = "AxiosError"
    THEN IF error.hasResponse /\ error.status >= 400 /\ error.status < 500
            THEN Thrown(McpError("InvalidRequest", AxiosMessage(name, error)))
            ELSE ErrorResult(AxiosMessage(name, error))
    ELSE IF error.cls = "McpError" THEN Thrown(error)
    ELSE IF error.cls = "Error" THEN ErrorResult(error.message)
    ELSE ErrorResult(<<"Failed to execute tool ", name, ".">>)

\* The catch block of the handler.
Catch(name, error) ==
    IF error.cls = "AxiosError" THEN ErrorResult(AxiosMessage(name, error))
    ELSE IF error.cls = "McpError" THEN Thrown(error)
    ELSE IF error.cls = "Error" THEN ErrorResult(error.message)
    ELSE ErrorResult(<<"Failed to execute tool ", name, ".">>)

\* --------------------------------------------------- the synchronous prefix
\* The query parameter list_sentry_issues composes.
ComposeQuery(a) ==
    LET q1 == IF Truthy(a.f.query) THEN a.f.query ELSE Undef
    IN  IF Truthy(a.f.status)
           THEN Str((IF Truthy(q1) THEN q1.v \o <<" ">> ELSE <<>>)
                    \o <<"is:">> \o a.f.status.v)
           ELSE q1

IssueUrl(id) == <<"issues/">> \o id \o <<"/">>
LatestEventUrl(id) ==
    <<"organizations/">> \o ORG_SLUG \o <<"/issues/">> \o id \o <<"/events/latest/">>
ProjectsUrl == <<"organizations/">> \o ORG_SLUG \o <<"/projects/">>
IssuesUrl(a) ==
    <<"projects/">> \o ORG_SLUG \o <<"/">> \o a.f.project_slug.v \o <<"/issues/">>
EventUrl(a) ==
    <<"projects/">> \o ORG_SLUG \o <<"/">> \o a.f.project_slug.v \o <<"/events/">>
        \o a.f.event_id.v \o <<"/">>

Awaiting(request, id) ==
    [throws |-> FALSE, request |-> request, issueId |-> id,
     error |-> McpError("none", <<>>)]
Throwing(error) ==
    [throws |-> TRUE, request |-> Get(<<>>, Undef), issueId |-> NotCalled,
     error |-> error]

\* The try block from its entry to its first await or throw.
Begin(name, a) ==
    IF name = "get_sentry_issue" THEN
        IF ~isValidGetIssueArgs(a)
        THEN Throwing(McpError("InvalidParams", <<"Invalid args for get_sentry_issue.">>))
        ELSE LET id == getIssueId(a.f.issue_id_or_url.v)
             IN  IF ~Truthy(id)
                 THEN Throwing(McpError("InvalidParams",
                          <<"Could not extract issue ID from: ">> \o a.f.issue_id_or_url.v))
                 ELSE Awaiting(Get(IssueUrl(id.v), Undef), id)
    ELSE IF name = "list_sentry_projects" THEN
        Awaiting(Get(ProjectsUrl, Undef), NotCalled)
    ELSE IF name = "list_sentry_issues" THEN
        IF ~isValidListIssuesArgs(a)
        THEN Throwing(McpError("InvalidParams", <<"Invalid args for list_sentry_issues.">>))
        ELSE Awaiting(Get(IssuesUrl(a), ComposeQuery(a)), NotCalled)
    ELSE IF name = "get_sentry_event_details" THEN
        IF ~isValidGetEventArgs(a)
        THEN Throwing(McpError("InvalidParams",
                 <<"Invalid args for get_sentry_event_details.">>))
        ELSE Awaiting(Get(EventUrl(a), Undef), NotCalled)
    ELSE Throwing(McpError("MethodNotFound", <<"Unknown tool: ", name>>))

\* Mutant of CombinedOf: combinedData is one variable shared by all
\* invocations, so a continuation reads what another invocation wrote.
CombinedShared(c) ==
    LET others == {d \in Calls : d # c /\ pc[d] = "awaitEvent"}
    IN  IF others = {} THEN combinedData[c]
        ELSE combinedData[CHOOSE d \in others : TRUE]

\* The locals of invocation c, as the continuation after an await reads them.
IssueIdOf(c) == issueId[c]
CombinedOf(c) == combinedData[c]

\* Mutant of Combine: { latest_event: null, ...issueData }, the spread last.
CombineSpreadLast(issueData) == issueData @@ ("latest_event" :> JsonNull)

\* const combinedData = { ...issueData, latest_event: null }
Combine(issueData) == ("latest_event" :> JsonNull) @@ issueData

\* The inner try/catch around the latest-event fetch: the event on success,
\* combinedData untouched on any failure.
WithEvent(combined, r) ==
    IF r.kind = "ok" THEN [combined EXCEPT !["latest_event"] = r.data] ELSE combined

\* Whether some other invocation is suspended at an await.
OthersInFlight(c) ==
    \E d \in Calls : d # c /\ pc[d] \in {"awaitPrimary", "awaitEvent"}

\* ------------------------------------------------------------------ actions
\* A CallTool request arrives and the handler runs to its first await, or
\* throws into its catch block.
Invoke(c, name, a) ==
    /\ pc[c] = "idle"
    /\ LET b == Begin(name, a)
       IN  /\ toolName' = [toolName EXCEPT ![c] = name]
           /\ args' = [args EXCEPT ![c] = a]
           /\ issueId' = [issueId EXCEPT ![c] = b.issueId]
           /\ IF b.throws
                 THEN /\ pc' = [pc EXCEPT ![c] = "done"]
                      /\ outcome' = [outcome EXCEPT ![c] = Catch(name, b.error)]
                      /\ UNCHANGED requests
                 ELSE /\ pc' = [pc EXCEPT ![c] = "awaitPrimary"]
                      /\ requests' = [requests EXCEPT ![c] = <<b.request>>]
                      /\ UNCHANGED outcome
    /\ UNCHANGED <<combinedData, responses, overlapped, idInput, idResult>>

\* Mutant of PrimaryResponds: a failed primary request is sent once more
\* before the failure is reported.
PrimaryRespondsRetrying(c, r) ==
    /\ pc[c] = "awaitPrimary"
    /\ overlapped' = [overlapped EXCEPT ![c] = @ \/ OthersInFlight(c)]
    /\ IF r.kind # "ok" /\ Len(requests[c]) = 1
          THEN /\ requests' = [requests EXCEPT ![c] = Append(@, @[1])]
               /\ UNCHANGED <<pc, outcome, combinedData, responses>>
          ELSE IF r.kind # "ok"
          THEN /\ responses' = [responses EXCEPT ![c] = <<r>>]
               /\ pc' = [pc EXCEPT ![c] = "done"]
               /\ outcome' = [outcome EXCEPT ![c] = Catch(toolName[c], AxiosError(r))]
               /\ UNCHANGED <<requests, combinedData>>
          ELSE IF toolName[c] = "get_sentry_issue"
          THEN /\ responses' = [responses EXCEPT ![c] = <<r>>]
               /\ pc' = [pc EXCEPT ![c] = "awaitEvent"]
               /\ combinedData' = [combinedData EXCEPT ![c] = Combine(r.data)]
               /\ requests' = [requests EXCEPT ![c] =
                      Append(@, Get(LatestEventUrl(IssueIdOf(c).v), Undef))]
               /\ UNCHANGED outcome
          ELSE /\ responses' = [responses EXCEPT ![c] = <<r>>]
               /\ pc' = [pc EXCEPT ![c] = "done"]
               /\ outcome' = [outcome EXCEPT ![c] = Success(Stringify(r.data))]
               /\ UNCHANGED <<requests, combinedData>>
    /\ UNCHANGED <<toolName, args, issueId, idInput, idResult>>

\* The tool's first upstream request settles and the handler resumes.
PrimaryResponds(c, r) ==
    /\ pc[c] = "awaitPrimary"
    /\ responses' = [responses EXCEPT ![c] = <<r>>]
    /\ overlapped' = [overlapped EXCEPT ![c] = @ \/ OthersInFlight(c)]
    /\ IF r.kind # "ok"
          THEN /\ pc' = [pc EXCEPT ![c] = "done"]
               /\ outcome' = [outcome EXCEPT ![c] = Catch(toolName[c], AxiosError(r))]
               /\ UNCHANGED <<requests, combinedData>>
          ELSE IF toolName[c] = "get_sentry_issue"
          THEN /\ pc' = [pc EXCEPT ![c] = "awaitEvent"]
               /\ combinedData' = [combinedData EXCEPT ![c] = Combine(r.data)]
               /\ requests' = [requests EXCEPT ![c] =
                      Append(@, Get(LatestEventUrl(IssueIdOf(c).v), Undef))]
               /\ UNCHANGED outcome
          ELSE /\ pc' = [pc EXCEPT ![c] = "done"]
               /\ outcome' = [outcome EXCEPT ![c] = Success(Stringify(r.data))]
               /\ UNCHANGED <<requests, combinedData>>
    /\ UNCHANGED <<toolName, args, issueId, idInput, idResult>>

\* The latest-event request of get_sentry_issue settles and the handler
\* returns.
EventResponds(c, r) ==
    /\ pc[c] = "awaitEvent"
    /\ responses' = [responses EXCEPT ![c] = Append(@, r)]
    /\ overlapped' = [overlapped EXCEPT ![c] = @ \/ OthersInFlight(c)]
    /\ combinedData' = [combinedData EXCEPT ![c] = WithEvent(CombinedOf(c), r)]
    /\ outcome' = [outcome EXCEPT ![c] = Success(Stringify(WithEvent(CombinedOf(c), r)))]
    /\ pc' = [pc EXCEPT ![c] = "done"]
    /\ UNCHANGED <<toolName, args, issueId, requests, idInput, idResult>>

\* A stand-alone call of getIssueId.
ExtractId ==
    /\ idResult = NotCalled
    /\ idResult' = getIssueId(idInput)
    /\ UNCHANGED <<callVars, idInput>>

\* ------------------------------------------------------------------ inputs
ToolNames ==
    AdvertisedNames \cup
    {"update_sentry_issue_status", "create_sentry_issue_comment", "no_such_tool"}

With(fields) == Obj(fields @@ NoFields)

NonObjects == {NonObj(Undef), NonObj(JsNull), NonObj(Str(<<"x">>))}

\* "11", "x", "", <origin>/I/1, <origin>/x/I/11/, <origin>/I/I/1,
\* <origin>/I/x, <origin> (I standing for the segment "issues").
IdStrings ==
    { <<"1", "1">>, <<"x">>, <<>>,
      <<"S", "/", "I", "/", "1">>,
      <<"S", "/", "x", "/", "I", "/", "1", "1", "/">>,
      <<"S", "/", "I", "/", "I", "/", "1">>,
      <<"S", "/", "I", "/", "x">>,
      <<"S">> }

Statuses ==
    {Undef, Num, Str(<<>>), Str(<<"bogus">>)} \cup {Str(s) : s \in StatusEnum}
Queries == {Undef, Num, Str(<<>>), Str(<<"is:unresolved">>)}
Slugs == {Undef, Num, Str(<<"web">>)}
EventIds == {Undef, Num, Str(<<"e1">>)}

\* The argument payloads tried with each tool name.
ArgsFor(name) ==
    CASE name = "get_sentry_issue" ->
            NonObjects \cup
            {With("issue_id_or_url" :> v) :
                v \in {Undef, Num} \cup {Str(s) : s \in IdStrings}}
      [] name = "list_sentry_issues" ->
            NonObjects \cup
            {With("project_slug" :> p @@ "query" :> q @@ "status" :> st) :
                p \in Slugs, q \in Queries, st \in Statuses}
      [] name = "get_sentry_event_details" ->
            NonObjects \cup
            {With("project_slug" :> p @@ "event_id" :> e) : p \in Slugs, e \in EventIds}
      [] name = "update_sentry_issue_status" ->
            NonObjects \cup
            {With("issue_id" :> i @@ "status" :> st) :
                i \in {Undef, Str(<<"1">>)}, st \in {Undef, Str(<<"resolved">>)}}
      [] name = "create_sentry_issue_comment" ->
            NonObjects \cup
            {With("issue_id" :> i @@ "comment_text" :> t) :
                i \in {Undef, Str(<<"1">>)}, t \in {Undef, Str(<<"seen">>)}}
      [] OTHER -> {NonObj(Undef), With(<<>>)}

\* A few payloads per tool, for runs of several invocations at once.
FewArgsFor(name) ==
    CASE name = "get_sentry_issue" ->
            {With("issue_id_or_url" :> Str(<<"S", "/", "I", "/", "1">>)),
             With("issue_id_or_url" :> Str(<<"x">>))}
      [] name = "list_sentry_issues" ->
            {With(<<>>),
             With("project_slug" :> Str(<<"web">>) @@ "query" :> Str(<<"is:unresolved">>)
                  @@ "status" :> Str(<<"ignored">>))}
      [] name = "get_sentry_event_details" ->
            {With("project_slug" :> Str(<<"web">>) @@ "event_id" :> Str(<<"e1">>))}
      [] OTHER -> {NonObj(Undef)}

FewToolNames == AdvertisedNames \cup {"update_sentry_issue_status"}

FewPrimaryAnswers ==
    {OkResponse(d) : d \in IssuePayloads} \cup {HttpFailure(404), Timeout}
FewEventAnswers ==
    {OkResponse(d) : d \in EventPayloads} \cup {HttpFailure(404)}

\* Identifier inputs: token strings up to MaxLen, bare or after an origin.
RECURSIVE StringsUpTo(_)
StringsUpTo(n) ==
    IF n = 0 THEN {<<>>}
    ELSE LET shorter == StringsUpTo(n - 1)
         IN  shorter \cup {Append(s, t) : s \in {x \in shorter : Len(x) = n - 1},
                                          t \in PathTokens}

IdInputs == LET ps == StringsUpTo(MaxLen) IN ps \cup {<<"S">> \o p : p \in ps}

\* ----------------------------------------------------------- specifications
IdleCalls ==
    /\ pc = [c \in Calls |-> "idle"]
    /\ toolName = [c \in Calls |-> ""]
    /\ args = [c \in Calls |-> NonObj(Undef)]
    /\ issueId = [c \in Calls |-> NotCalled]
    /\ combinedData = [c \in Calls |-> JsonNull]
    /\ requests = [c \in Calls |-> <<>>]
    /\ responses = [c \in Calls |-> <<>>]
    /\ outcome = [c \in Calls |-> NoOutcome]
    /\ overlapped = [c \in Calls |-> FALSE]

Init ==
    /\ IdleCalls
    /\ idInput = <<>>
    /\ idResult = NotCalled

\* One invocation, every argument payload and every upstream answer.
Next ==
    \/ \E name \in ToolNames : \E a \in ArgsFor(name) : Invoke(1, name, a)
    \/ \E r \in PrimaryAnswers : PrimaryResponds(1, r)
    \/ \E r \in EventAnswers : EventResponds(1, r)

Spec == Init /\ [][Next]_vars

\* Several invocations whose upstream waits interleave in any order.
NextConcurrent ==
    \/ \E c \in Calls : \E name \in FewToolNames : \E a \in FewArgsFor(name) :
          Invoke(c, name, a)
    \/ \E c \in Calls : \E r \in FewPrimaryAnswers : PrimaryResponds(c, r)
    \/ \E c \in Calls : \E r \in FewEventAnswers : EventResponds(c, r)

SpecConcurrent == Init /\ [][NextConcurrent]_vars

\* getIssueId applied to every identifier input.
InitId ==
    /\ IdleCalls
    /\ idInput \in IdInputs
    /\ idResult = NotCalled

NextId == ExtractId

SpecId == InitId /\ [][NextId]_vars

\* ------------------------------------------------ the handler run on its own
\* The handler run from entry to return with nothing else scheduled in
\* between: rs are the upstream's answers to its requests, in order.
RunAlone(name, a, rs) ==
    LET b == Begin(name, a)
    IN  IF b.throws
           THEN [outcome |-> Catch(name, b.error), requests |-> <<>>]
        ELSE IF rs[1].kind # "ok"
           THEN [outcome |-> Catch(name, AxiosError(rs[1])), requests |-> <<b.request>>]
        ELSE IF name = "get_sentry_issue"
           THEN [outcome |-> Success(Stringify(WithEvent(Combine(rs[1].data), rs[2]))),
                 requests |-> <<b.request, Get(LatestEventUrl(b.issueId.v), Undef)>>]
        ELSE [outcome |-> Success(Stringify(rs[1].data)), requests |-> <<b.request>>]

\* =================================================================== claims
Done(c) == pc[c] = "done"
Started(c) == pc[c] # "idle"

IsProtocolError(o, code) == o.kind = "ProtocolError" /\ o.code = code
IsToolResult(o) == o.kind = "ToolResult"

Tokens(text) == {text[i] : i \in 1..Len(text)}
EndsWith(text, tail) ==
    Len(text) >= Len(tail) /\ SubSeq(text, Len(text) - Len(tail) + 1, Len(text)) = tail

\* Whether the type guard of the tool accepts the payload (TRUE for a tool
\* that validates nothing).
GuardAccepts(name, a) ==
    CASE name = "get_sentry_issue" -> isValidGetIssueArgs(a)
      [] name = "list_sentry_issues" -> isValidListIssuesArgs(a)
      [] name = "get_sentry_event_details" -> isValidGetEventArgs(a)
      [] OTHER -> TRUE

\* ---- C1
\* C1: for each tool of the required-shapes table, an invocation whose
\* arguments are not an object or lack a required field ends in an
\* InvalidParams protocol error, never in a ToolResult.
ShapeTools ==
    {"get_sentry_issue", "list_sentry_issues", "get_sentry_event_details",
     "update_sentry_issue_status", "create_sentry_issue_comment"}

LacksRequired(name, a) ==
    a.t # "object" \/ \E k \in GuardedFields(name) : a.f[k].t = "undefined"

C1_MissingFieldIsInvalidParams ==
    \A c \in Calls :
        (Done(c) /\ toolName[c] \in ShapeTools /\ LacksRequired(toolName[c], args[c]))
        => IsProtocolError(outcome[c], "InvalidParams")

\* ---- C5
\* C5: list_sentry_issues with accepted arguments sends exactly one request,
\* to projects/{org}/{project_slug}/issues/, whose query parameter is
\* query + " is:" + status when a non-empty query and a status are given,
\* "is:" + status when a status is given and the query is absent or empty,
\* the query alone when only a non-empty query is given, and absent
\* otherwise.
C5_ExpectedQuery(a) ==
    LET hasQuery == a.f.query.t = "string" /\ a.f.query.v # <<>>
        hasStatus == a.f.status.t = "string"
    IN  IF hasQuery /\ hasStatus
           THEN Str(a.f.query.v \o <<" ", "is:">> \o a.f.status.v)
        ELSE IF hasStatus THEN Str(<<"is:">> \o a.f.status.v)
        ELSE IF hasQuery THEN Str(a.f.query.v)
        ELSE Undef

C5_QueryComposition ==
    \A c \in Calls :
        (Started(c) /\ toolName[c] = "list_sentry_issues"
         /\ isValidListIssuesArgs(args[c]))
        => requests[c] =
             << Get(<<"projects/", "org", "/">> \o args[c].f.project_slug.v
                        \o <<"/issues/">>,
                    C5_ExpectedQuery(args[c])) >>

\* ---- C6
\* C6: for a URL whose path has a segment "issues" immediately followed by
\* an all-digit segment, getIssueId returns that digit segment, wherever else
\* "issues" occurs; for a URL without such a pair it returns no-match; for a
\* non-URL it returns the input if it is all digits and no-match otherwise.
C6_IdCandidates(input) ==
    LET parts == Split(Pathname(input))
    IN  {parts[i + 1] : i \in {j \in 1..(Len(parts) - 1) :
                                  parts[j] = <<"I">> /\ IsDigits(parts[j + 1])}}

C6_ExtractsIssueId ==
    idResult # NotCalled =>
        IF UrlParses(idInput)
        THEN IF C6_IdCandidates(idInput) # {}
                THEN idResult \in {Str(d) : d \in C6_IdCandidates(idInput)}
                ELSE idResult = JsNull
        ELSE idResult = (IF IsDigits(idInput) THEN Str(idInput) ELSE JsNull)

\* ---- C7
\* C7: list_sentry_issues accepts a payload only if its status is absent or
\* one of the schema's enum values; any other status ends in an
\* InvalidParams protocol error with no upstream request.
C7_StatusOutsideEnum(a) ==
    a.t = "object" /\ a.f.status.t # "undefined"
    /\ ~(a.f.status.t = "string" /\ a.f.status.v \in ListTools[3].statusEnum)

C7_StatusEnumEnforced ==
    \A c \in Calls :
        (Started(c) /\ toolName[c] = "list_sentry_issues"
         /\ C7_StatusOutsideEnum(args[c]))
        => /\ Done(c)
           /\ IsProtocolError(outcome[c], "InvalidParams")
           /\ requests[c] = <<>>

\* ---- C2
\* What C2 says of an invocation whose i-th upstream request was answered
\* with a non-2xx status: a ToolResult with isError=true whose single text is
\* the not-found message (404) or the permission-denied message (401, 403)
\* naming the tool, or else the composed message with the tool name, the
\* status and the response body.
C2_Classified(c, i) ==
    LET r == responses[c][i]
        o == outcome[c]
        text == o.content[1].text
    IN  r.kind = "http" =>
          /\ IsToolResult(o) /\ o.isError /\ Len(o.content) = 1
          /\ IF r.status = 404
                THEN text = <<"Sentry resource not found for ", toolName[c],
                              ". Check IDs/slugs.">>
             ELSE IF r.status \in {401, 403}
                THEN text = <<"Sentry API permission denied for ", toolName[c],
                              ". Check auth token validity and permissions.">>
             ELSE /\ text[1] = "Sentry API error for "
                  /\ toolName[c] \in Tokens(text)
                  /\ ToString(r.status) \in Tokens(text)
                  /\ EndsWith(text, Stringify(r.data))

\* C2 as stated: the classification applies to any upstream request made
\* while handling the invocation.
C2_AnyRequestClassified ==
    \A c \in Calls : Done(c) => \A i \in 1..Len(responses[c]) : C2_Classified(c, i)

\* C2 amended: the classification applies to the tool's primary (first)
\* upstream request.
C2_PrimaryRequestClassified ==
    \A c \in Calls : (Done(c) /\ Len(responses[c]) >= 1) => C2_Classified(c, 1)

C2_Witness ==
    \E c \in Calls :
        /\ Done(c) /\ Len(responses[c]) = 1
        /\ responses[c][1].kind = "http" /\ responses[c][1].status = 403
        /\ outcome[c].isError

\* ---- C3
\* C3: get_sentry_issue whose primary fetch succeeded returns a ToolResult
\* with isError=false carrying the issue data with latest_event = null when
\* the latest-event fetch failed in any way, and with latest_event = the
\* fetched event when it succeeded.
C3_Expected(issue, r) ==
    [k \in DOMAIN issue \cup {"latest_event"} |->
        IF k = "latest_event"
           THEN (IF r.kind = "ok" THEN r.data ELSE JsonNull)
           ELSE issue[k]]

C3_EventFailureAbsorbed ==
    \A c \in Calls :
        (Done(c) /\ toolName[c] = "get_sentry_issue"
         /\ Len(responses[c]) >= 1 /\ responses[c][1].kind = "ok")
        => /\ Len(responses[c]) = 2
           /\ outcome[c] =
                [kind |-> "ToolResult", isError |-> FALSE,
                 content |-> << [type |-> "text",
                                 text |-> Stringify(C3_Expected(responses[c][1].data,
                                                                responses[c][2]))] >>]

C3_Witness ==
    \E c \in Calls :
        /\ Done(c) /\ toolName[c] = "get_sentry_issue"
        /\ Len(responses[c]) = 2 /\ responses[c][2].kind = "timeout"
        /\ "latest_event" \in DOMAIN responses[c][1].data
        /\ ~outcome[c].isError

\* ---- C4
\* C4: an invocation ends in a MethodNotFound protocol error exactly when
\* its tool name is not one the discovery operation returns.
C4_MethodNotFoundIffUnadvertised ==
    \A c \in Calls :
        Done(c) =>
            (IsProtocolError(outcome[c], "MethodNotFound")
             <=> toolName[c] \notin AdvertisedNames)

C4_Witness ==
    \E c \in Calls :
        /\ Done(c) /\ toolName[c] = "update_sentry_issue_status"
        /\ IsProtocolError(outcome[c], "MethodNotFound")

\* ---- C8
\* C8: a finished invocation is a success ToolResult, a ToolResult with
\* isError=true and exactly one text item, or an InvalidParams/MethodNotFound
\* protocol error; a failed primary upstream call always gives the
\* isError=true ToolResult; a protocol error comes only from argument
\* validation, identifier extraction or unknown-tool dispatch, before any
\* request, and carries the thrown message unchanged.
C8_ThrownMessages(name, a) ==
    IF name \notin AdvertisedNames THEN {<<"Unknown tool: ", name>>}
    ELSE IF ~GuardAccepts(name, a) THEN {<<"Invalid args for " \o name \o ".">>}
    ELSE IF name = "get_sentry_issue"
         THEN {<<"Could not extract issue ID from: ">> \o a.f.issue_id_or_url.v}
    ELSE {}

C8_OutcomeShape(o) ==
    \/ /\ IsToolResult(o) /\ ~o.isError
    \/ /\ IsToolResult(o) /\ o.isError
       /\ Len(o.content) = 1 /\ o.content[1].type = "text"
    \/ IsProtocolError(o, "InvalidParams")
    \/ IsProtocolError(o, "MethodNotFound")

C8_OutcomeTaxonomy ==
    \A c \in Calls :
        Done(c) =>
            /\ C8_OutcomeShape(outcome[c])
            /\ (Len(responses[c]) >= 1 /\ responses[c][1].kind # "ok")
                 => (IsToolResult(outcome[c]) /\ outcome[c].isError)
            /\ outcome[c].kind = "ProtocolError"
                 => /\ requests[c] = <<>>
                    /\ responses[c] = <<>>
                    /\ outcome[c].message \in C8_ThrownMessages(toolName[c], args[c])

C8_Witness ==
    \E c \in Calls :
        /\ Done(c) /\ Len(responses[c]) = 1 /\ responses[c][1].kind = "http"
        /\ responses[c][1].status = 400
        /\ IsToolResult(outcome[c]) /\ outcome[c].isError

\* ---- C9
\* C9: an invocation issues no request when the tool is unknown, validation
\* fails or identifier extraction fails; otherwise exactly one primary
\* request, followed for get_sentry_issue only by exactly one latest-event
\* request, issued if and only if the primary request succeeded.  Nothing is
\* reissued after a failure and nothing precedes a passed validation.
C9_NoRequest(name, a) ==
    \/ name \notin AdvertisedNames
    \/ ~GuardAccepts(name, a)
    \/ name = "get_sentry_issue" /\ getIssueId(a.f.issue_id_or_url.v) = JsNull

C9_PrimaryUrl(name, a) ==
    CASE name = "get_sentry_issue" ->
            <<"issues/">> \o getIssueId(a.f.issue_id_or_url.v).v \o <<"/">>
      [] name = "list_sentry_projects" -> <<"organizations/", "org", "/projects/">>
      [] name = "list_sentry_issues" ->
            <<"projects/", "org", "/">> \o a.f.project_slug.v \o <<"/issues/">>
      [] OTHER ->
            <<"projects/", "org", "/">> \o a.f.project_slug.v \o <<"/events/">>
                \o a.f.event_id.v \o <<"/">>

C9_RequestSequence ==
    \A c \in Calls :
        Started(c) =>
            IF C9_NoRequest(toolName[c], args[c])
            THEN requests[c] = <<>> /\ Done(c)
            ELSE LET second == /\ toolName[c] = "get_sentry_issue"
                               /\ Len(responses[c]) >= 1
                               /\ responses[c][1].kind = "ok"
                 IN  /\ Len(requests[c]) = (IF second THEN 2 ELSE 1)
                     /\ requests[c][1].url = C9_PrimaryUrl(toolName[c], args[c])
                     /\ second =>
                           requests[c][2].url =
                             <<"organizations/", "org", "/issues/">>
                               \o getIssueId(args[c].f.issue_id_or_url.v).v
                               \o <<"/events/latest/">>
                     /\ Len(responses[c]) <= Len(requests[c])
                     /\ Done(c) <=> (Len(responses[c]) = Len(requests[c])
                                     /\ (second => Len(responses[c]) = 2))

C9_Witness ==
    \E c \in Calls :
        /\ Done(c) /\ toolName[c] = "get_sentry_issue"
        /\ Len(requests[c]) = 2 /\ responses[c][2].kind = "http"

\* ---- C10
\* C10: with several invocations in flight and their upstream waits
\* interleaved in any order, the requests an invocation has issued and its
\* outcome are those of the same invocation (same tool name, arguments and
\* upstream answers) run alone.
C10_IndependentOfInterleaving ==
    \A c \in Calls :
        Started(c) =>
            LET alone == RunAlone(toolName[c], args[c], responses[c])
            IN  /\ Done(c) => (outcome[c] = alone.outcome
                               /\ requests[c] = alone.requests)
                /\ ~Done(c) =>
                      (outcome[c] = NoOutcome
                       /\ requests[c] = SubSeq(RunAlone(toolName[c], args[c],
                               responses[c] \o <<Timeout, Timeout>>).requests,
                               1, Len(responses[c]) + 1))

C10_Witness ==
    \E c, d \in Calls :
        /\ c # d /\ Done(c) /\ Done(d)
        /\ overlapped[c] /\ overlapped[d]
        /\ toolName[c] = "get_sentry_issue" /\ toolName[d] = "get_sentry_issue"
        /\ Len(responses[c]) = 2 /\ Len(responses[d]) = 2
        /\ outcome[c] # outcome[d]

====
